---- MODULE Spec2Model ----
(***************************************************************************)
(* A model of app/frontend_management.py: FrontEndProvider (release        *)
(* listing with pagination, latest release, version lookup),               *)
(* download_release_asset_zip and FrontendManager (version-string parsing, *)
(* cache probe, download, cleanup, fallback to the bundled frontend).      *)
(*                                                                         *)
(* Strings are sequences of tokens: "v" is the letter v, "1" and "2" each  *)
(* stand for one MAJOR.MINOR.PATCH digit group, "latest" for the word.     *)
(* A path is a sequence of components, each component a string.            *)
(* Every statement of init_frontend_unsafe is one step of a process, so    *)
(* that the filesystem and the network are observed between the steps.     *)
(***************************************************************************)
EXTENDS Integers, Sequences, FiniteSets, TLC

VARIABLES
    fs,          \* the directories on disk: path -> set of file names in it
    api,         \* what the release API serves: pages of releases, latest
    providers,   \* FrontEndProvider instances: their cached properties
    loc,         \* per process: the locals of the running call
    created,     \* cache directories made by the resolver and still on disk
    cachedRet,   \* spec -> the cache paths earlier calls returned for it
    fetches      \* per provider instance: successful fetches of each endpoint

vars == <<fs, api, providers, loc, created, cachedRet, fetches>>

(***************************************************************************)
(* Bounds                                                                  *)
(***************************************************************************)
MaxPages == 3

(***************************************************************************)
(* String helpers (str.lstrip, str.startswith, pathlib's "/")              *)
(***************************************************************************)
\* a plausible slip: one leading character is removed, not all
lstripOne(s, ch) == IF s # <<>> /\ Head(s) = ch THEN Tail(s) ELSE s

RECURSIVE lstrip(_, _)
lstrip(s, ch) == IF s # <<>> /\ Head(s) = ch THEN lstrip(Tail(s), ch) ELSE s

startswith(s, ch) == s # <<>> /\ Head(s) = ch

\* Path(base) / comp: pathlib drops an empty segment
PathJoin(base, comp) == IF comp = <<>> THEN base ELSE Append(base, comp)

(***************************************************************************)
(* Module constants                                                        *)
(***************************************************************************)
DEFAULT_VERSION_STRING == <<"default">>

DEFAULT_FRONTEND_PATH == << <<"static">> >>

CUSTOM_FRONTENDS_ROOT == << <<"web_custom_versions">> >>

(***************************************************************************)
(* Releases and assets served by the API                                   *)
(***************************************************************************)
DistAsset(u) == [name |-> "dist.zip", url |-> u]

OtherAsset(u) == [name |-> "source.zip", url |-> u]

Rel(i, tag, assets) == [id |-> i, tag_name |-> tag, assets |-> assets]

\* a release whose JSON carries no "assets" key
RelNoAssets(i, tag) == [id |-> i, tag_name |-> tag]

NoRelease == [id |-> 0, tag_name |-> <<>>]

\* release.get("assets", [])
ReleaseAssets(release) ==
    IF "assets" \in DOMAIN release THEN release.assets ELSE <<>>

\* what the API may serve: the releases list and the latest release
Scenarios ==
    { [list |-> << RelNoAssets(1, <<"1">>),
                   Rel(2, <<"v", "1">>, <<OtherAsset(<<"Y">>), DistAsset(<<"X">>)>>),
                   Rel(3, <<"v", "2">>, <<DistAsset(<<"Y">>)>>) >>,
       latest |-> Rel(3, <<"v", "2">>, <<DistAsset(<<"Y">>)>>)],
      [list |-> << Rel(4, <<"v", "v", "1">>, <<DistAsset(<<"X">>), DistAsset(<<"Y">>)>>),
                   Rel(5, <<"v", "1">>, <<OtherAsset(<<"X">>)>>),
                   Rel(6, <<"2">>, <<DistAsset(<<>>)>>) >>,
       latest |-> Rel(6, <<"2">>, <<DistAsset(<<>>)>>)],
      [list |-> << >>,
       latest |-> Rel(7, <<"1">>, <<>>)] }

\* the releases list cut into n pages, in order (pages may be empty)
PageSize(list, n) == (Len(list) + n - 1) \div n

Split(list, n) ==
    [k \in 1..n |->
        SubSeq(list, (k - 1) * PageSize(list, n) + 1,
                     IF k * PageSize(list, n) < Len(list)
                     THEN k * PageSize(list, n) ELSE Len(list))]

Apis ==
    { [pages |-> Split(sc.list, n), latest |-> sc.latest] :
        sc \in Scenarios, n \in 1..MaxPages }

\* file names; a zip archive is the sequence of its members, and a download may
\* return bytes that are no zip at all
Files == <<"index.html", "app.js">>

Range(seq) == { seq[i] : i \in 1..Len(seq) }

Zips == { [valid |-> TRUE, entries |-> Files],
          [valid |-> TRUE, entries |-> <<>>],
          [valid |-> FALSE, entries |-> <<>>] }

NoZip == [valid |-> FALSE, entries |-> <<>>]

(***************************************************************************)
(* Filesystem                                                              *)
(***************************************************************************)
exists(path) == path \in DOMAIN fs

Prefixes(path) == { SubSeq(path, 1, k) : k \in 1..Len(path) }

SubDirs(f, path) ==
    { d[Len(d)] : d \in { e \in DOMAIN f : Len(e) = Len(path) + 1
                                          /\ SubSeq(e, 1, Len(path)) = path } }

\* os.listdir
listdir(f, path) == f[path] \cup SubDirs(f, path)

\* os.makedirs(path, exist_ok=True)
makedirs(f, path) ==
    [d \in DOMAIN f \cup Prefixes(path) |-> IF d \in DOMAIN f THEN f[d] ELSE {}]

\* a plausible slip: os.removedirs, which also prunes the parents left empty
removedirs(f, path) ==
    LET gone == { d \in Prefixes(path) :
                    \A e \in DOMAIN f :
                        (Len(e) >= Len(d) /\ SubSeq(e, 1, Len(d)) = d) =>
                            (e \in Prefixes(path) /\ f[e] = {}) }
    IN  [d \in DOMAIN f \ gone |-> f[d]]

\* os.rmdir of an empty directory
rmdir(f, path) == [d \in DOMAIN f \ {path} |-> f[d]]

\* files written into an existing directory
writeFiles(f, path, names) == [f EXCEPT ![path] = @ \cup names]

(***************************************************************************)
(* Exceptions                                                              *)
(***************************************************************************)
Exc(type, arg) == [type |-> type, arg |-> arg]

NoExc == Exc("None", <<>>)

InvalidVersionString(value) ==
    Exc("ArgumentTypeError", <<"Invalid version string:">> \o value)

VersionNotFound(version) ==
    Exc("ValueError", <<"Version">> \o version \o <<"not found in releases">>)

AssetNotFound == Exc("ValueError", <<"dist.zip not found in the release assets">>)

\* requests.get raising on a timeout, raise_for_status on an error status
RequestFailure(status, url) ==
    Exc(IF status = "timeout" THEN "Timeout" ELSE "HTTPError", url)

Statuses == {"ok", "error", "timeout"}

(***************************************************************************)
(* FrontEndProvider                                                        *)
(***************************************************************************)
\* a cached_property is an optional value: <<>> until computed, then <<value>>
FrontEndProvider(owner, repo) ==
    [owner |-> owner, repo |-> repo, all_releases |-> <<>>, latest_release |-> <<>>]

folder_name(prov) == <<prov.owner, "_", prov.repo>>

release_url(prov) == <<"releases", prov.owner, prov.repo>>

latest_release_url(prov) == release_url(prov) \o <<"latest">>

\* the URL of the k-th page of the releases collection
PageUrl(base, k) == IF k = 1 THEN base ELSE base \o <<"page", ToString(k)>>

\* the page the API serves for url (0: no such page)
PageIndex(pages, base, url) ==
    IF \E k \in 1..Len(pages) : PageUrl(base, k) = url
    THEN CHOOSE k \in 1..Len(pages) : PageUrl(base, k) = url
    ELSE 0

\* response.links: the "next" link of page k, absent on the last page
NextLink(pages, base, k) ==
    IF k < Len(pages) THEN <<PageUrl(base, k + 1)>> ELSE <<>>

\* a plausible slip: only the exact tag is accepted
TagMatchesExact(release, version) == release.tag_name = version

\* release["tag_name"] in [version, f"v{version}"]
TagMatches(release, version) ==
    release.tag_name = version \/ release.tag_name = <<"v">> \o version

\* the for loop of get_release: the first matching release, <<>> when none
RECURSIVE FindRelease(_, _)
FindRelease(releases, version) ==
    IF releases = <<>> THEN <<>>
    ELSE IF TagMatches(Head(releases), version) THEN <<Head(releases)>>
    ELSE FindRelease(Tail(releases), version)

(***************************************************************************)
(* download_release_asset_zip: the asset loop                              *)
(***************************************************************************)
\* a plausible slip: the loop has no break, and the last dist.zip wins
RECURSIVE FindAssetUrlLast(_)
FindAssetUrlLast(assets) ==
    IF assets = <<>> THEN <<>>
    ELSE IF FindAssetUrlLast(Tail(assets)) # <<>> THEN FindAssetUrlLast(Tail(assets))
    ELSE IF Head(assets).name = "dist.zip" THEN <<Head(assets).url>>
    ELSE <<>>

\* a plausible slip: the first asset is taken whatever its name
FindAssetUrlAny(assets) == IF assets = <<>> THEN <<>> ELSE <<Head(assets).url>>

\* the url of the first asset named dist.zip; <<>> is None
RECURSIVE FindAssetUrl(_)
FindAssetUrl(assets) ==
    IF assets = <<>> THEN <<>>
    ELSE IF Head(assets).name = "dist.zip" THEN <<Head(assets).url>>
    ELSE FindAssetUrl(Tail(assets))

\* "not asset_url": None or the empty string
NotAssetUrl(opt) == opt = <<>> \/ opt[1] = <<>>

(***************************************************************************)
(* FrontendManager.parse_version_string                                    *)
(***************************************************************************)
OwnerTokens == {"o"}

RepoTokens == {"r"}

NumTokens == {"1", "2"}

\* (v?\d+\.\d+\.\d+|latest)
VersionPattern(s) ==
    \/ s = <<"latest">>
    \/ Len(s) = 1 /\ s[1] \in NumTokens
    \/ Len(s) = 2 /\ s[1] = "v" /\ s[2] \in NumTokens

\* ^owner/repo@version$
PatternMatches(value) ==
    /\ Len(value) >= 5
    /\ value[1] \in OwnerTokens
    /\ value[2] = "/"
    /\ value[3] \in RepoTokens
    /\ value[4] = "@"
    /\ VersionPattern(SubSeq(value, 5, Len(value)))

parse_version_string(value) ==
    [owner |-> value[1], repo |-> value[3], version |-> SubSeq(value, 5, Len(value))]

\* the version strings callers pass
Spec_(version) == <<"o", "/", "r", "@">> \o version

VersionStrings ==
    { DEFAULT_VERSION_STRING,
      Spec_(<<"v", "1">>), Spec_(<<"1">>), Spec_(<<"v", "2">>), Spec_(<<"latest">>),
      Spec_(<<"v", "v", "1">>), <<"o", "r">> }

\* a plausible slip: the "v" is not stripped from the probed directory name
ExpectedPathUnstripped(owner, repo, version) ==
    PathJoin(PathJoin(CUSTOM_FRONTENDS_ROOT, <<owner, "_", repo>>), version)

\* expected_path of the cache probe, web_root of the download
ExpectedPath(owner, repo, version) ==
    PathJoin(PathJoin(CUSTOM_FRONTENDS_ROOT, <<owner, "_", repo>>),
             lstrip(version, "v"))

WebRoot(prov, release) ==
    PathJoin(PathJoin(CUSTOM_FRONTENDS_ROOT, folder_name(prov)),
             lstrip(release.tag_name, "v"))

(***************************************************************************)
(* State                                                                   *)
(***************************************************************************)
Procs == {"A", "B"}

ProviderIds == Procs \cup {"shared"}

NoFetches == [all_releases |-> 0, latest_release |-> 0]

\* the repository the API serves
ApiBase == release_url(FrontEndProvider("o", "r"))

EmptyFs == [d \in {} |-> {}]

CacheDir1 == ExpectedPath("o", "r", <<"1">>)

InitFs ==
    { EmptyFs,
      makedirs(EmptyFs, CacheDir1),
      writeFiles(makedirs(EmptyFs, CacheDir1), CacheDir1, Range(Files)) }

InitLoc ==
    [pc |-> "idle", entry |-> "", version_string |-> <<>>, provider |-> "",
     owner |-> "", repo |-> "", version |-> <<>>, prov |-> "",
     release |-> NoRelease, web_root |-> <<>>, api_url |-> <<>>,
     releases |-> <<>>, asset_url |-> <<>>, content |-> NoZip,
     exc |-> NoExc, ret |-> <<>>, outcome |-> "", reqs |-> <<>>,
     fs0 |-> EmptyFs, dl_fs |-> EmptyFs, dl_reqs |-> 0, made |-> FALSE, wrote |-> 0]

Init ==
    /\ fs \in InitFs
    /\ api \in Apis
    /\ providers = [i \in ProviderIds |-> FrontEndProvider("o", "r")]
    /\ loc = [p \in Procs |-> InitLoc]
    /\ created = {}
    /\ cachedRet = [vs \in VersionStrings |-> {}]
    /\ fetches = [i \in ProviderIds |-> NoFetches]

\* a plausible slip: a plain property, which keeps nothing
CachedNothing(value) == <<>>

\* a cached_property once computed
Cached(value) == <<value>>

\* one more successful fetch, counted up to 2
Count(n) == IF n < 2 THEN n + 1 ELSE n

Set(p, l) == loc' = [loc EXCEPT ![p] = l]

\* a raise outside the try/finally of the download
Raising(l, e) == [l EXCEPT !.pc = "raise", !.exc = e]

\* a plausible slip: a failed request is sent once more before giving up
raise_for_statusRetry(l, status, url) ==
    IF Cardinality({ i \in 1..Len(l.reqs) : l.reqs[i] = url }) < 2
    THEN l
    ELSE Raising(l, RequestFailure(status, url))

\* response.raise_for_status(), or the timeout of requests.get: the error is
\* raised at once
raise_for_status(l, status, url) == Raising(l, RequestFailure(status, url))

\* "return path" of init_frontend_unsafe
Returning(l, path) == [l EXCEPT !.pc = "done", !.ret = path, !.outcome = "returned"]

(***************************************************************************)
(* init_frontend / init_frontend_unsafe, statement by statement            *)
(***************************************************************************)
\* a caller invokes init_frontend(vs), or init_frontend_unsafe(vs, provider)
Call(p, vs, entry, provider) ==
    /\ loc[p].pc = "idle"
    /\ entry = "init_frontend" => provider = ""
    /\ Set(p, [InitLoc EXCEPT !.pc = "check_default", !.entry = entry,
                              !.version_string = vs, !.provider = provider,
                              !.fs0 = fs])
    /\ UNCHANGED <<fs, api, providers, created, cachedRet, fetches>>

\* a plausible slip: the sentinel compared is the word "latest"
IsDefaultVersionLatest(version_string) == version_string = <<"latest">>

\* version_string == DEFAULT_VERSION_STRING
IsDefaultVersion(version_string) == version_string = DEFAULT_VERSION_STRING

\* if version_string == DEFAULT_VERSION_STRING: return DEFAULT_FRONTEND_PATH
CheckDefault(p) ==
    /\ loc[p].pc = "check_default"
    /\ Set(p, IF IsDefaultVersion(loc[p].version_string)
              THEN Returning(loc[p], DEFAULT_FRONTEND_PATH)
              ELSE [loc[p] EXCEPT !.pc = "parse"])
    /\ UNCHANGED <<fs, api, providers, created, cachedRet, fetches>>

\* repo_owner, repo_name, version = cls.parse_version_string(version_string)
Parse(p) ==
    /\ loc[p].pc = "parse"
    /\ LET l == loc[p]
           m == parse_version_string(l.version_string)
       IN  Set(p, IF ~PatternMatches(l.version_string)
                  THEN Raising(l, InvalidVersionString(l.version_string))
                  ELSE [l EXCEPT !.pc = "probe", !.owner = m.owner,
                                 !.repo = m.repo, !.version = m.version])
    /\ UNCHANGED <<fs, api, providers, created, cachedRet, fetches>>

\* a plausible slip: the probe is made for the versions without a "v"
ProbeHitBare(f, owner, repo, version) ==
    /\ ~startswith(version, "v")
    /\ ExpectedPath(owner, repo, version) \in DOMAIN f

\* the cache probe: a version tag whose directory is already on disk
ProbeHit(f, owner, repo, version) ==
    /\ startswith(version, "v")
    /\ ExpectedPath(owner, repo, version) \in DOMAIN f

Probe(p) ==
    /\ loc[p].pc = "probe"
    /\ LET l == loc[p]
       IN  Set(p, IF ProbeHit(fs, l.owner, l.repo, l.version)
                  THEN Returning(l, ExpectedPath(l.owner, l.repo, l.version))
                  ELSE [l EXCEPT !.pc = "get_release"])
    /\ UNCHANGED <<fs, api, providers, created, cachedRet, fetches>>

\* a plausible slip: the word is compared in another case, and never matches
WantsLatestCapital(version) == version = <<"Latest">>

\* get_release dispatch: "latest" reads latest_release, anything else all_releases
WantsLatest(version) == version = <<"latest">>

\* provider = provider or FrontEndProvider(...); release = provider.get_release(version)
GetRelease(p) ==
    /\ loc[p].pc = "get_release"
    /\ LET l == loc[p]
           id == IF l.provider = "" THEN p ELSE l.provider
           ps == IF l.provider = ""
                 THEN [providers EXCEPT ![p] = FrontEndProvider(l.owner, l.repo)]
                 ELSE providers
           l1 == [l EXCEPT !.prov = id]
       IN  /\ providers' = ps
           /\ fetches' = IF l.provider = ""
                         THEN [fetches EXCEPT ![p] = NoFetches]
                         ELSE fetches
           /\ Set(p, IF WantsLatest(l.version)
                     THEN IF ps[id].latest_release # <<>>
                          THEN [l1 EXCEPT !.pc = "target",
                                          !.release = ps[id].latest_release[1]]
                          ELSE [l1 EXCEPT !.pc = "latest_get"]
                     ELSE IF ps[id].all_releases # <<>>
                          THEN [l1 EXCEPT !.pc = "scan"]
                          ELSE [l1 EXCEPT !.pc = "all_get",
                                          !.api_url = <<release_url(ps[id])>>,
                                          !.releases = <<>>])
    /\ UNCHANGED <<fs, api, created, cachedRet>>

\* latest_release: one GET, cached on success
LatestGet(p) ==
    /\ loc[p].pc = "latest_get"
    /\ \E status \in Statuses :
        LET l == loc[p]
            url == latest_release_url(providers[l.prov])
            l1 == [l EXCEPT !.reqs = Append(@, url)]
        IN  IF status # "ok" \/ url # ApiBase \o <<"latest">>
            THEN /\ Set(p, raise_for_status(l1, status, url))
                 /\ UNCHANGED <<providers, fetches>>
            ELSE /\ Set(p, [l1 EXCEPT !.pc = "target", !.release = api.latest])
                 /\ providers' = [providers EXCEPT
                                    ![l.prov].latest_release = Cached(api.latest)]
                 /\ fetches' = [fetches EXCEPT
                                    ![l.prov].latest_release = Count(@)]
    /\ UNCHANGED <<fs, api, created, cachedRet>>

\* a plausible slip: each page replaces the releases read so far
ExtendReplaces(releases, body) == body

\* releases.extend(response.json())
Extend(releases, body) == releases \o body

\* one iteration of the while loop of all_releases
AllGet(p) ==
    /\ loc[p].pc = "all_get"
    /\ \E status \in Statuses :
        LET l == loc[p]
            url == l.api_url[1]
            k == PageIndex(api.pages, ApiBase, url)
            l1 == [l EXCEPT !.reqs = Append(@, url)]
        IN  IF status # "ok" \/ k = 0
            THEN /\ Set(p, raise_for_status(l1, status, url))
                 /\ UNCHANGED <<providers, fetches>>
            ELSE LET rs == Extend(l.releases, api.pages[k])
                     next == NextLink(api.pages, ApiBase, k)
                 IN  IF next # <<>>
                     THEN /\ Set(p, [l1 EXCEPT !.releases = rs, !.api_url = next])
                          /\ UNCHANGED <<providers, fetches>>
                     ELSE /\ Set(p, [l1 EXCEPT !.releases = rs, !.api_url = <<>>,
                                               !.pc = "scan"])
                          /\ providers' = [providers EXCEPT
                                             ![l.prov].all_releases = Cached(rs)]
                          /\ fetches' = [fetches EXCEPT
                                             ![l.prov].all_releases = Count(@)]
    /\ UNCHANGED <<fs, api, created, cachedRet>>

\* for release in self.all_releases: ... raise ValueError
Scan(p) ==
    /\ loc[p].pc = "scan"
    /\ LET l == loc[p]
           found == FindRelease(providers[l.prov].all_releases[1], l.version)
       IN  Set(p, IF found = <<>>
                  THEN Raising(l, VersionNotFound(l.version))
                  ELSE [l EXCEPT !.pc = "target", !.release = found[1]])
    /\ UNCHANGED <<fs, api, providers, created, cachedRet, fetches>>

\* semantic_version, web_root; if not os.path.exists(web_root)
\* a plausible slip: an empty directory is downloaded into again
TargetExistsNonEmpty(f, web_root) ==
    web_root \in DOMAIN f /\ listdir(f, web_root) # {}

\* if not os.path.exists(web_root)
TargetExists(f, web_root) == web_root \in DOMAIN f

\* a plausible slip: the download is called without creating the directory
DownloadAtOnce == "find_asset"

\* the statement that follows the test when the directory is missing:
\* os.makedirs, and the download after it
CreateThenDownload == "makedirs"

Target(p) ==
    /\ loc[p].pc = "target"
    /\ LET l == loc[p]
           web_root == WebRoot(providers[l.prov], l.release)
           l1 == [l EXCEPT !.web_root = web_root]
       IN  Set(p, IF TargetExists(fs, web_root)
                  THEN Returning(l1, web_root)
                  ELSE [l1 EXCEPT !.pc = CreateThenDownload])
    /\ UNCHANGED <<fs, api, providers, created, cachedRet, fetches>>

\* os.makedirs(web_root, exist_ok=True); it may fail (OSError)
Makedirs(p) ==
    /\ loc[p].pc = "makedirs"
    /\ \E ok \in BOOLEAN :
        LET l == loc[p]
        IN  IF ok
            THEN /\ fs' = makedirs(fs, l.web_root)
                 /\ created' = created \cup {l.web_root}
                 /\ Set(p, [l EXCEPT !.pc = "find_asset", !.made = TRUE,
                                     !.dl_fs = makedirs(fs, l.web_root),
                                     !.dl_reqs = Len(l.reqs)])
            ELSE /\ Set(p, [l EXCEPT !.pc = "cleanup",
                                     !.exc = Exc("OSError", <<"makedirs">>)])
                 /\ UNCHANGED <<fs, created>>
    /\ UNCHANGED <<api, providers, cachedRet, fetches>>

\* download_release_asset_zip: find the dist.zip asset or raise
FindAsset(p) ==
    /\ loc[p].pc = "find_asset"
    /\ LET l == loc[p]
           asset_url == FindAssetUrl(ReleaseAssets(l.release))
       IN  Set(p, IF NotAssetUrl(asset_url)
                  THEN [l EXCEPT !.pc = "cleanup", !.exc = AssetNotFound]
                  ELSE [l EXCEPT !.pc = "asset_get", !.asset_url = asset_url[1]])
    /\ UNCHANGED <<fs, api, providers, created, cachedRet, fetches>>

\* requests.get(asset_url, ...); response.raise_for_status()
AssetGet(p) ==
    /\ loc[p].pc = "asset_get"
    /\ \E status \in Statuses, zip \in Zips :
        LET l == loc[p]
            l1 == [l EXCEPT !.reqs = Append(@, l.asset_url)]
        IN  /\ status # "ok" => zip = NoZip
            /\ Set(p, IF status # "ok"
                      THEN [raise_for_status(l1, status, l.asset_url)
                                EXCEPT !.pc = "cleanup"]
                      ELSE [l1 EXCEPT !.pc = "extract", !.content = zip])
    /\ UNCHANGED <<fs, api, providers, created, cachedRet, fetches>>

\* zipfile.ZipFile(tmp_file).extractall(destination_path): the archive may be
\* no zip at all, and the extraction may fail after writing some members
Extract(p) ==
    /\ loc[p].pc = "extract"
    /\ \E n \in 0..Len(loc[p].content.entries) :
        LET l == loc[p]
            written == Range(SubSeq(l.content.entries, 1, n))
        IN  IF ~l.content.valid
            THEN /\ Set(p, [l EXCEPT !.pc = "cleanup",
                                     !.exc = Exc("BadZipFile", <<>>)])
                 /\ UNCHANGED fs
            ELSE /\ fs' = IF written = {} THEN fs
                          ELSE writeFiles(makedirs(fs, l.web_root), l.web_root, written)
                 /\ Set(p, [l EXCEPT !.pc = "cleanup", !.wrote = n,
                                     !.exc = IF n = Len(l.content.entries) THEN NoExc
                                             ELSE Exc("OSError", <<"extractall">>)])
    /\ UNCHANGED <<api, providers, created, cachedRet, fetches>>

\* leaving the try statement: the pending exception propagates, or web_root
\* is returned
LeaveTry(l) ==
    IF l.exc # NoExc THEN [l EXCEPT !.pc = "raise"] ELSE Returning(l, l.web_root)

\* a plausible slip: the cleanup never finds the directory empty
IsEmptyDirNever(f, path) == FALSE

\* the directory is removed when os.listdir finds it empty
IsEmptyDir(f, path) == listdir(f, path) = {}

\* finally: if not os.listdir(web_root)
Cleanup(p) ==
    /\ loc[p].pc = "cleanup"
    /\ LET l == loc[p]
       IN  Set(p, IF l.web_root \notin DOMAIN fs
                  THEN Raising(l, Exc("FileNotFoundError", <<"listdir">>))
                  ELSE IF IsEmptyDir(fs, l.web_root)
                       THEN [l EXCEPT !.pc = "rmdir"]
                       ELSE LeaveTry(l))
    /\ UNCHANGED <<fs, api, providers, created, cachedRet, fetches>>

\* finally: os.rmdir(web_root)
Rmdir(p) ==
    /\ loc[p].pc = "rmdir"
    /\ LET l == loc[p]
       IN  IF l.web_root \notin DOMAIN fs
           THEN /\ Set(p, Raising(l, Exc("FileNotFoundError", <<"rmdir">>)))
                /\ UNCHANGED <<fs, created>>
           ELSE IF listdir(fs, l.web_root) # {}
                THEN /\ Set(p, Raising(l, Exc("OSError", <<"rmdir">>)))
                     /\ UNCHANGED <<fs, created>>
                ELSE /\ fs' = rmdir(fs, l.web_root)
                     /\ created' = created \ {l.web_root}
                     /\ Set(p, LeaveTry(l))
    /\ UNCHANGED <<api, providers, cachedRet, fetches>>

\* a plausible slip: init_frontend catches ValueError alone
ExceptValueError(l) ==
    IF l.entry = "init_frontend" /\ l.exc.type = "ValueError"
    THEN [l EXCEPT !.pc = "done", !.ret = DEFAULT_FRONTEND_PATH,
                   !.outcome = "returned"]
    ELSE [l EXCEPT !.pc = "done", !.outcome = "raised"]

\* init_frontend: except Exception -> the default frontend; init_frontend_unsafe
\* lets the exception out
Except(l) ==
    IF l.entry = "init_frontend"
    THEN Returning(l, DEFAULT_FRONTEND_PATH)
    ELSE [l EXCEPT !.pc = "done", !.outcome = "raised"]

Raise(p) ==
    /\ loc[p].pc = "raise"
    /\ Set(p, Except(loc[p]))
    /\ UNCHANGED <<fs, api, providers, created, cachedRet, fetches>>

\* the call is over; a returned cache path that is on disk is remembered
Return(p) ==
    /\ loc[p].pc = "done"
    /\ LET l == loc[p]
       IN  cachedRet' =
             IF l.outcome = "returned" /\ l.ret # DEFAULT_FRONTEND_PATH
                /\ l.ret \in DOMAIN fs
             THEN [cachedRet EXCEPT ![l.version_string] = @ \cup {l.ret}]
             ELSE cachedRet
    /\ Set(p, InitLoc)
    /\ UNCHANGED <<fs, api, providers, created, fetches>>

Step(p) ==
    \/ \E vs \in VersionStrings, entry \in {"init_frontend", "init_frontend_unsafe"},
          provider \in {"", "shared"} : Call(p, vs, entry, provider)
    \/ CheckDefault(p)
    \/ Parse(p)
    \/ Probe(p)
    \/ GetRelease(p)
    \/ LatestGet(p)
    \/ AllGet(p)
    \/ Scan(p)
    \/ Target(p)
    \/ Makedirs(p)
    \/ FindAsset(p)
    \/ AssetGet(p)
    \/ Extract(p)
    \/ Cleanup(p)
    \/ Rmdir(p)
    \/ Raise(p)
    \/ Return(p)

\* one process at a time: the module is single-threaded
Next == Step("A")

Spec == Init /\ [][Next]_vars

\* two processes resolve the same version string at once, each with its own
\* provider: they share the disk and the API and nothing else
CallConc(p, vs, entry) ==
    /\ \A q \in Procs \ {p} : loc[q].pc = "idle" \/ loc[q].version_string = vs
    /\ Call(p, vs, entry, "")

StepConc(p) ==
    \/ \E vs \in VersionStrings, entry \in {"init_frontend", "init_frontend_unsafe"} :
          CallConc(p, vs, entry)
    \/ CheckDefault(p)
    \/ Parse(p)
    \/ Probe(p)
    \/ GetRelease(p)
    \/ LatestGet(p)
    \/ AllGet(p)
    \/ Scan(p)
    \/ Target(p)
    \/ Makedirs(p)
    \/ FindAsset(p)
    \/ AssetGet(p)
    \/ Extract(p)
    \/ Cleanup(p)
    \/ Rmdir(p)
    \/ Raise(p)

NextConc == \E p \in Procs : StepConc(p)

SpecConc == Init /\ [][NextConc]_vars

(***************************************************************************)
(* Properties                                                              *)
(***************************************************************************)
Done(l) == l.pc = "done"

Returned(l) == l.pc = "done" /\ l.outcome = "returned"

\* the call named a valid owner/repo@version with a version other than latest
ValidVersioned(l) ==
    /\ PatternMatches(l.version_string)
    /\ SubSeq(l.version_string, 5, Len(l.version_string)) # <<"latest">>

VersionOf(l) == SubSeq(l.version_string, 5, Len(l.version_string))

ExpectedDir(l) == ExpectedPath("o", "r", VersionOf(l))

\* C1: init_frontend never raises: whatever the version string and whatever
\* failed inside (parsing, release resolution, directory creation, download,
\* extraction, cleanup), the call returns, and after a failure it returns the
\* bundled default frontend path.
C1_InitFrontendNeverRaises ==
    \A p \in Procs :
        LET l == loc[p]
        IN  (Done(l) /\ l.entry = "init_frontend") =>
                /\ l.outcome = "returned"
                /\ l.exc # NoExc => l.ret = DEFAULT_FRONTEND_PATH

C1_Witness ==
    \E p \in Procs :
        /\ Returned(loc[p])
        /\ loc[p].entry = "init_frontend"
        /\ loc[p].exc.type = "BadZipFile"
        /\ loc[p].ret = DEFAULT_FRONTEND_PATH

\* C2 as stated: for every valid owner/repo@version with a version other
\* than latest, with or without the leading v, a cache directory present when
\* the resolver is called is returned and no network request is issued.
C2_ProbeAnyVersion ==
    \A p \in Procs :
        LET l == loc[p]
        IN  (Done(l) /\ ValidVersioned(l) /\ ExpectedDir(l) \in DOMAIN l.fs0) =>
                /\ l.outcome = "returned"
                /\ l.ret = ExpectedDir(l)
                /\ l.reqs = <<>>

\* C2 amended: for every valid owner/repo@version whose version starts with
\* "v", a cache directory {cacheRoot}/{owner}_{repo}/{version without v}
\* present when the resolver is called is returned and no network request is
\* issued.
C2_ProbeVersionTag ==
    \A p \in Procs :
        LET l == loc[p]
        IN  (Done(l) /\ ValidVersioned(l) /\ startswith(VersionOf(l), "v")
                /\ ExpectedDir(l) \in DOMAIN l.fs0) =>
                /\ l.outcome = "returned"
                /\ l.ret = ExpectedDir(l)
                /\ l.reqs = <<>>

C2_Witness ==
    \E p \in Procs :
        /\ Returned(loc[p])
        /\ loc[p].version_string = Spec_(<<"v", "1">>)
        /\ CacheDir1 \in DOMAIN loc[p].fs0
        /\ loc[p].ret = CacheDir1
        /\ loc[p].reqs = <<>>

\* C3: when a resolution created the target directory and the download failed
\* before any file was written, the directory does not exist once the call is
\* over; and between calls no cache directory the resolver created is on disk
\* empty.
C3_NoEmptyDirLeft ==
    /\ \A p \in Procs :
        LET l == loc[p]
        IN  (Done(l) /\ l.made /\ l.exc # NoExc /\ l.wrote = 0) =>
                l.web_root \notin DOMAIN fs
    /\ (\A p \in Procs : loc[p].pc \in {"idle", "done"}) =>
            \A d \in created : d \in DOMAIN fs /\ listdir(fs, d) # {}

C3_Witness ==
    \E p \in Procs :
        /\ Done(loc[p])
        /\ loc[p].made
        /\ loc[p].exc.type = "HTTPError"
        /\ loc[p].web_root \notin DOMAIN fs
        /\ created # {}

\* C4 as stated: every path returned other than the bundled default is a
\* directory that exists when the call returns, and when this call downloaded
\* the release it holds every member of the release's dist.zip (an archive
\* with no members included).
C4_ReturnedDirExists ==
    \A p \in Procs :
        LET l == loc[p]
        IN  (Returned(l) /\ l.ret # DEFAULT_FRONTEND_PATH) =>
                /\ l.ret \in DOMAIN fs
                /\ l.made => Range(l.content.entries) \subseteq fs[l.ret]

\* C5: a call with the sentinel version string returns the bundled default
\* path, issues no network request and leaves the filesystem as it was,
\* whatever the cache holds.
C5_DefaultSentinel ==
    \A p \in Procs :
        LET l == loc[p]
        IN  (Done(l) /\ l.version_string = DEFAULT_VERSION_STRING) =>
                /\ l.outcome = "returned"
                /\ l.ret = DEFAULT_FRONTEND_PATH
                /\ l.reqs = <<>>
                /\ fs = l.fs0

C5_Witness ==
    \E p \in Procs :
        /\ Returned(loc[p])
        /\ loc[p].version_string = DEFAULT_VERSION_STRING
        /\ loc[p].ret = DEFAULT_FRONTEND_PATH
        /\ CacheDir1 \in DOMAIN fs
        /\ created # {}

\* C6 as stated: once a resolution of a version spec has returned a cache path
\* (one that was on disk when it returned), every later resolution of the same
\* spec returns that very path and issues no network request.
C6_IdempotentAnySpec ==
    \A p \in Procs :
        LET l == loc[p]
        IN  (Done(l) /\ cachedRet[l.version_string] # {}) =>
                /\ l.outcome = "returned"
                /\ \A q \in cachedRet[l.version_string] : l.ret = q
                /\ l.reqs = <<>>

\* C6 amended: once a resolution of a spec whose version starts with "v" has
\* returned a cache path that was on disk when it returned, every later
\* resolution of the same spec returns that very path and issues no network
\* request.
C6_IdempotentVersionTag ==
    \A p \in Procs :
        LET l == loc[p]
        IN  (Done(l) /\ cachedRet[l.version_string] # {}
                /\ startswith(VersionOf(l), "v")) =>
                /\ l.outcome = "returned"
                /\ \A q \in cachedRet[l.version_string] : l.ret = q
                /\ l.reqs = <<>>

\* a second resolution of o/r@v1, whose first resolution downloaded the release
C6_Witness ==
    \E p \in Procs :
        /\ Returned(loc[p])
        /\ loc[p].version_string = Spec_(<<"v", "1">>)
        /\ cachedRet[loc[p].version_string] = {loc[p].ret}
        /\ loc[p].ret \in created
        /\ loc[p].reqs = <<>>

\* the releases as the API returns them: the pages of the chain, in order
RECURSIVE ConcatPages(_, _)
ConcatPages(pages, n) ==
    IF n = 0 THEN <<>> ELSE ConcatPages(pages, n - 1) \o pages[n]

ApiReleases == ConcatPages(api.pages, Len(api.pages))

\* the positions of the releases whose tag is version or "v" + version
Matching(version) ==
    { i \in 1..Len(ApiReleases) :
        ApiReleases[i].tag_name \in {version, <<"v">> \o version} }

\* C7: get_release(version), version other than "latest", returns the first
\* release in the API's order whose tag_name is version or "v" + version, and
\* raises the version-not-found error, carrying version, exactly when no
\* release has such a tag.
C7_GetReleaseFirstMatch ==
    [][\A p \in Procs :
        (loc[p].pc = "scan" /\ loc'[p].pc # "scan") =>
            LET v == loc[p].version
                m == Matching(v)
            IN  IF m = {}
                THEN /\ loc'[p].pc = "raise"
                     /\ loc'[p].exc = Exc("ValueError",
                            <<"Version">> \o v \o <<"not found in releases">>)
                     /\ loc'[p].release = NoRelease
                ELSE /\ loc'[p].pc = "target"
                     /\ loc'[p].exc = NoExc
                     /\ loc'[p].release =
                            ApiReleases[CHOOSE i \in m : \A j \in m : i <= j]
      ]_vars

\* o/r@v1 resolved to the release tagged vv1 that precedes the one tagged v1
C7_Witness ==
    \E p \in Procs :
        /\ loc[p].pc = "target"
        /\ loc[p].version = <<"v", "1">>
        /\ loc[p].release.tag_name = <<"v", "v", "1">>
        /\ \E i, j \in Matching(<<"v", "1">>) : i < j

PageUrls(n) == [i \in 1..n |-> PageUrl(ApiBase, i)]

IsPageUrl(url) == \E k \in 1..Len(api.pages) : url = PageUrl(ApiBase, k)

\* C8: over a chain of n pages all_releases requests the collection URL and
\* then each next URL in turn, n requests in all, and its result is the
\* pages' arrays concatenated in page order; while it runs it has requested
\* fewer than n pages, so that it stops; a failed page request aborts it with
\* the request's error, nothing cached and no release returned.
C8_Pagination ==
    \A p \in Procs :
        LET l == loc[p]
            n == Len(api.pages)
        IN  /\ l.pc = "all_get" =>
                /\ Len(l.reqs) < n
                /\ l.reqs = PageUrls(Len(l.reqs))
                /\ l.api_url = <<PageUrl(ApiBase, Len(l.reqs) + 1)>>
                /\ l.releases = ConcatPages(api.pages, Len(l.reqs))
                /\ providers[l.prov].all_releases = <<>>
            /\ (l.pc = "scan" /\ l.reqs # <<>>) =>
                /\ l.reqs = PageUrls(n)
                /\ providers[l.prov].all_releases = <<ApiReleases>>
            /\ (l.pc \in {"raise", "done"} /\ l.exc.type \in {"HTTPError", "Timeout"}
                    /\ IsPageUrl(l.exc.arg)) =>
                /\ l.reqs = PageUrls(Len(l.reqs))
                /\ l.exc.arg = l.reqs[Len(l.reqs)]
                /\ providers[l.prov].all_releases = <<>>
                /\ l.release = NoRelease

\* three pages read, each holding one release
C8_Witness ==
    \E p \in Procs :
        /\ loc[p].pc = "scan"
        /\ Len(loc[p].reqs) = 3
        /\ Len(providers[loc[p].prov].all_releases[1]) = 3
        /\ \A k \in 1..3 : api.pages[k] # <<>>

NoDistZip(release) ==
    \A i \in 1..Len(ReleaseAssets(release)) :
        ReleaseAssets(release)[i].name # "dist.zip"

\* C9: download_release_asset_zip on a release with no asset named dist.zip
\* (no assets key and an empty list included) raises the asset-not-found
\* error, having issued no network request and written nothing to disk.
C9_NoDistZip ==
    \A p \in Procs :
        LET l == loc[p]
        IN  (l.made /\ NoDistZip(l.release)) =>
                /\ l.pc \in {"find_asset", "cleanup", "rmdir", "raise", "done"}
                /\ Len(l.reqs) = l.dl_reqs
                /\ l.pc # "find_asset" => l.exc = AssetNotFound
                /\ l.pc \in {"find_asset", "cleanup"} => fs = l.dl_fs

\* the release chosen carries other assets, none of them dist.zip
C9_Witness ==
    \E p \in Procs :
        /\ loc[p].pc = "cleanup"
        /\ loc[p].made
        /\ NoDistZip(loc[p].release)
        /\ ReleaseAssets(loc[p].release) # <<>>
        /\ loc[p].exc = AssetNotFound

\* C10: get_release("latest") takes its result from the latest-release
\* endpoint alone: it requests no page of the releases collection and never
\* runs the scan of the release list, whatever the provider has cached.
C10_LatestEndpointOnly ==
    \A p \in Procs :
        LET l == loc[p]
        IN  l.version = <<"latest">> =>
                /\ l.pc \notin {"all_get", "scan"}
                /\ \A i \in 1..Len(l.reqs) : ~IsPageUrl(l.reqs[i])
                /\ l.pc = "latest_get" => l.reqs = <<>>
                /\ l.pc = "target" =>
                        /\ l.release = api.latest
                        /\ l.reqs \in {<<>>, <<ApiBase \o <<"latest">>>>}
                /\ l.release \in {NoRelease, api.latest}

\* latest is fetched on a provider that already holds the release list
C10_Witness ==
    \E p \in Procs :
        /\ loc[p].pc = "target"
        /\ loc[p].version = <<"latest">>
        /\ loc[p].prov = "shared"
        /\ providers["shared"].all_releases # <<>>
        /\ Len(providers["shared"].all_releases[1]) > 0
        /\ loc[p].reqs = <<ApiBase \o <<"latest">>>>

\* C11: on one provider instance each cached property is computed by at most
\* one successful fetch; while it is held no request for its endpoint is
\* issued (the request steps run only on an empty cache), and every access
\* yields the value fetched, which is what the API served.
C11_Memoized ==
    /\ \A i \in ProviderIds :
        /\ fetches[i].all_releases <= 1
        /\ fetches[i].latest_release <= 1
        /\ providers[i].all_releases \in {<<>>, <<ApiReleases>>}
        /\ providers[i].latest_release \in {<<>>, <<api.latest>>}
        /\ fetches[i].all_releases = 1 => providers[i].all_releases # <<>>
        /\ fetches[i].latest_release = 1 => providers[i].latest_release # <<>>
    /\ \A p \in Procs :
        LET l == loc[p]
        IN  /\ l.pc = "all_get" =>
                /\ providers[l.prov].all_releases = <<>>
                /\ fetches[l.prov].all_releases = 0
            /\ l.pc = "latest_get" =>
                /\ providers[l.prov].latest_release = <<>>
                /\ fetches[l.prov].latest_release = 0
            /\ l.pc = "scan" => providers[l.prov].all_releases # <<>>
            /\ (l.pc = "target" /\ l.version = <<"latest">>) =>
                providers[l.prov].latest_release = <<l.release>>

\* a later call on the shared provider is served from both caches
C11_Witness ==
    \E p \in Procs :
        /\ loc[p].pc = "target"
        /\ loc[p].version = <<"latest">>
        /\ loc[p].prov = "shared"
        /\ loc[p].reqs = <<>>
        /\ fetches["shared"] = [all_releases |-> 1, latest_release |-> 1]

\* the url of the first asset named dist.zip, in list order
FirstDistUrl(release) ==
    LET assets == ReleaseAssets(release)
        named == { i \in 1..Len(assets) : assets[i].name = "dist.zip" }
    IN  assets[CHOOSE i \in named : \A j \in named : i <= j].url

\* what the download has done once it is over: one request, for url, and the
\* members written are in the destination directory and nothing else changed
DownloadedFrom(l, url) ==
    /\ Len(l.reqs) = l.dl_reqs + 1
    /\ l.reqs[Len(l.reqs)] = url
    /\ DOMAIN fs = DOMAIN l.dl_fs
    /\ \A d \in DOMAIN fs :
        fs[d] = IF d = l.web_root
                THEN l.dl_fs[d] \cup Range(SubSeq(l.content.entries, 1, l.wrote))
                ELSE l.dl_fs[d]
    /\ l.exc = NoExc => l.wrote = Len(l.content.entries)
    /\ l.exc.type \in {"HTTPError", "Timeout"} => l.wrote = 0

\* C12 as stated: download_release_asset_zip on a release with one or more
\* assets named dist.zip issues exactly one GET, to the url of the first of
\* them, and extracts the response's zip into the destination directory and
\* nowhere else.
C12_OneGetFirstDistZip ==
    \A p \in Procs :
        LET l == loc[p]
        IN  (l.pc = "cleanup" /\ l.made /\ ~NoDistZip(l.release)) =>
                DownloadedFrom(l, FirstDistUrl(l.release))

\* C12 amended: the same, for a release whose first asset named dist.zip has
\* a non-empty url; before the request is sent none has been issued.
C12_OneGetFirstDistZipUrl ==
    \A p \in Procs :
        LET l == loc[p]
        IN  (l.made /\ ~NoDistZip(l.release) /\ FirstDistUrl(l.release) # <<>>) =>
                /\ l.pc \in {"find_asset", "asset_get"} => Len(l.reqs) = l.dl_reqs
                /\ l.pc = "asset_get" => l.asset_url = FirstDistUrl(l.release)
                /\ l.pc = "cleanup" => DownloadedFrom(l, FirstDistUrl(l.release))

\* the release carries two dist.zip assets, X before Y; X was fetched and
\* both members of its archive are in the destination directory
C12_Witness ==
    \E p \in Procs :
        /\ loc[p].pc = "cleanup"
        /\ loc[p].made
        /\ loc[p].release.id = 4
        /\ loc[p].exc = NoExc
        /\ loc[p].reqs[Len(loc[p].reqs)] = <<"X">>
        /\ fs[loc[p].web_root] = Range(Files)

\* both processes were asked for the same version string while the cache was
\* empty, both calls are over, and no archive without members was extracted
BothDone ==
    /\ \A p \in Procs : Done(loc[p]) /\ loc[p].fs0 = EmptyFs
    /\ \A p, q \in Procs : loc[p].version_string = loc[q].version_string
    /\ \A p \in Procs : loc[p].content # NoZip => loc[p].content.entries # <<>>

\* C13: two concurrent resolver invocations for the same version string are
\* harmless: once both have returned, each has returned the default path or
\* the path of a directory that exists.
C13_ConcurrentHarmless ==
    BothDone =>
        \A p \in Procs :
            Returned(loc[p]) =>
                \/ loc[p].ret = DEFAULT_FRONTEND_PATH
                \/ exists(loc[p].ret)

\* C14: the resolver returns a cache directory without downloading only if
\* that directory exists and is non-empty; an existing but empty directory is
\* not a cache hit.
C14_HitOnlyNonEmpty ==
    \A p \in Procs :
        LET l == loc[p]
        IN  (Returned(l) /\ l.ret # DEFAULT_FRONTEND_PATH /\ ~l.made) =>
                /\ l.ret \in DOMAIN l.fs0
                /\ listdir(l.fs0, l.ret) # {}

\* C15: the resolver never deletes a file or a non-empty directory: in every
\* step each directory keeps its files, the only directory that disappears is
\* the target of the process that is cleaning up, and it was empty; when a
\* call ends after its extraction wrote members, they are still there.
C15_NeverDeletes ==
    [][ /\ \A d \in DOMAIN fs :
            /\ d \in DOMAIN fs' => fs[d] \subseteq fs'[d]
            /\ d \notin DOMAIN fs' =>
                /\ listdir(fs, d) = {}
                /\ \E p \in Procs : loc[p].pc = "rmdir" /\ loc[p].web_root = d
        /\ \A p \in Procs :
            (loc'[p].pc = "done" /\ loc[p].pc # "done" /\ loc'[p].wrote > 0) =>
                /\ loc'[p].web_root \in DOMAIN fs'
                /\ Range(SubSeq(loc'[p].content.entries, 1, loc'[p].wrote))
                       \subseteq fs'[loc'[p].web_root]
      ]_vars

\* the extraction failed after writing one of two members: the call is over,
\* the exception is out and the member is in the target directory
C15_Witness ==
    \E p \in Procs :
        /\ Done(loc[p])
        /\ loc[p].made
        /\ loc[p].exc = Exc("OSError", <<"extractall">>)
        /\ loc[p].wrote = 1
        /\ fs[loc[p].web_root] = {Files[1]}

\* C16: in a single-process run the target directory is created and the
\* download called only when the directory did not exist after release
\* resolution; when it exists it is returned, with no asset requested and the
\* disk as it was.
C16_DownloadOnlyIfAbsent ==
    \A p \in Procs :
        LET l == loc[p]
        IN  /\ l.pc \in {"find_asset", "asset_get", "extract"} => l.made
            /\ (l.made \/ l.pc = "makedirs") =>
                /\ l.release # NoRelease
                /\ l.web_root \notin DOMAIN l.fs0
            /\ (l.web_root # <<>> /\ l.web_root \in DOMAIN l.fs0) =>
                /\ Returned(l)
                /\ l.ret = l.web_root
                /\ ~l.made
                /\ l.content = NoZip
                /\ fs = l.fs0
                /\ \A i \in 1..Len(l.reqs) :
                    \A k \in 1..Len(ReleaseAssets(l.release)) :
                        l.reqs[i] # ReleaseAssets(l.release)[k].url

\* a bare version resolved to a release whose directory was on disk with its
\* files: it is returned after the metadata request alone
C16_Witness ==
    \E p \in Procs :
        /\ Returned(loc[p])
        /\ ~startswith(loc[p].version, "v")
        /\ loc[p].release # NoRelease
        /\ loc[p].ret = loc[p].web_root
        /\ loc[p].web_root \in DOMAIN loc[p].fs0
        /\ loc[p].fs0[loc[p].web_root] = Range(Files)
        /\ loc[p].reqs # <<>>

\* C17: no retry: within one resolution every URL is requested at most once,
\* and once a request has failed it is the last request of the resolution and
\* its error is what the resolution ends with.
C17_NoRetry ==
    \A p \in Procs :
        LET l == loc[p]
        IN  /\ \A i, j \in 1..Len(l.reqs) : l.reqs[i] = l.reqs[j] => i = j
            /\ l.exc.type \in {"HTTPError", "Timeout"} =>
                /\ l.pc \in {"raise", "cleanup", "rmdir", "done"}
                /\ l.reqs # <<>>
                /\ l.exc.arg = l.reqs[Len(l.reqs)]
                /\ Done(l) =>
                    IF l.entry = "init_frontend"
                    THEN l.outcome = "returned" /\ l.ret = DEFAULT_FRONTEND_PATH
                    ELSE l.outcome = "raised"

\* the request for the second page of releases timed out: the resolution is
\* over with that error after those two requests
C17_Witness ==
    \E p \in Procs :
        /\ Done(loc[p])
        /\ loc[p].outcome = "raised"
        /\ loc[p].exc.type = "Timeout"
        /\ loc[p].reqs = PageUrls(2)

\* the number of "v" a tag starts with
LeadingVs(tag) ==
    CHOOSE k \in 0..Len(tag) :
        /\ \A i \in 1..k : tag[i] = "v"
        /\ k < Len(tag) => tag[k + 1] # "v"

\* the release is resolved and its directory computed
Resolved(l) == l.release # NoRelease /\ l.web_root # <<>>

\* the directory the probe looks at is the directory of the release
ProbedIsStored(l) ==
    (ValidVersioned(l) /\ startswith(l.version, "v")) => ExpectedDir(l) = l.web_root

\* C18 as stated: the directory name of a resolved release is its tag_name
\* with one leading "v" stripped, so that the other tags of the provider's
\* releases map to other directories, and the directory probed for a version
\* is the directory of the release it matches.
C18_OneLeadingV ==
    \A p \in Procs :
        LET l == loc[p]
            tag == l.release.tag_name
            name == IF LeadingVs(tag) > 0 THEN Tail(tag) ELSE tag
        IN  Resolved(l) =>
                /\ l.web_root = PathJoin(PathJoin(CUSTOM_FRONTENDS_ROOT, <<"o", "_", "r">>),
                                         name)
                /\ \A i \in 1..Len(ApiReleases) :
                    ApiReleases[i].tag_name # tag =>
                        WebRoot(providers[l.prov], ApiReleases[i]) # l.web_root
                /\ ProbedIsStored(l)

\* C18 amended: the directory name is the tag_name with all its leading "v"
\* stripped; the tags that map to the directory of the resolved release are
\* those that differ from its tag in leading "v" only; the directory probed
\* for a version is the directory of the release it matches.
C18_AllLeadingVs ==
    \A p \in Procs :
        LET l == loc[p]
            tag == l.release.tag_name
            name == SubSeq(tag, LeadingVs(tag) + 1, Len(tag))
        IN  Resolved(l) =>
                /\ l.web_root = PathJoin(PathJoin(CUSTOM_FRONTENDS_ROOT, <<"o", "_", "r">>),
                                         name)
                /\ \A i \in 1..Len(ApiReleases) :
                    LET other == ApiReleases[i].tag_name
                    IN  WebRoot(providers[l.prov], ApiReleases[i]) = l.web_root
                            <=> SubSeq(other, LeadingVs(other) + 1, Len(other)) = name
                /\ ProbedIsStored(l)

\* version v1 matched the release tagged vv1, whose files were downloaded
\* into the directory 1, the one a later probe for v1 looks at
C18_Witness ==
    \E p \in Procs :
        /\ Returned(loc[p])
        /\ loc[p].made
        /\ loc[p].version = <<"v", "1">>
        /\ loc[p].release.tag_name = <<"v", "v", "1">>
        /\ loc[p].ret = ExpectedDir(loc[p])
        /\ fs[loc[p].ret] = Range(Files)

\* the release metadata the resolution needs has been read with success
MetadataRead(l) ==
    /\ l.release # NoRelease
    /\ IF l.version = <<"latest">>
       THEN providers[l.prov].latest_release = <<l.release>>
       ELSE providers[l.prov].all_releases # <<>>

\* C19: the steps run in a fixed order and nothing touches the disk before
\* the release is resolved: up to and including the test of the target
\* directory the disk is as the call found it; no request is made before the
\* version string is parsed, and a resolution that fails in parsing has made
\* none; a resolution that fails before a release is resolved leaves the disk
\* as it was; the asset is requested only once the metadata has been read and
\* the target directory created.
C19_FixedOrder ==
    \A p \in Procs :
        LET l == loc[p]
        IN  /\ l.pc \in {"check_default", "parse", "probe", "get_release",
                         "latest_get", "all_get", "scan", "target", "makedirs"} =>
                /\ fs = l.fs0
                /\ ~l.made
                /\ l.asset_url = <<>>
            /\ l.pc \in {"check_default", "parse", "probe", "get_release"} =>
                l.reqs = <<>>
            /\ (l.pc \in {"raise", "done"}
                    /\ l.exc = InvalidVersionString(l.version_string)) =>
                /\ l.reqs = <<>>
                /\ fs = l.fs0
            /\ (l.pc \in {"raise", "done"} /\ l.exc # NoExc /\ l.release = NoRelease) =>
                /\ fs = l.fs0
                /\ ~l.made
            /\ (l.pc \in {"find_asset", "asset_get", "extract"}
                    \/ l.asset_url # <<>>) =>
                /\ MetadataRead(l)
                /\ l.made
                /\ l.web_root \in DOMAIN l.dl_fs
                /\ l.pc \in {"asset_get", "extract"} => l.web_root \in DOMAIN fs

\* no release matches the version: the resolution has ended with that error
\* after its metadata requests, and the files of the cache are as they were
C19_Witness ==
    \E p \in Procs :
        /\ Done(loc[p])
        /\ loc[p].exc = VersionNotFound(loc[p].version)
        /\ loc[p].release = NoRelease
        /\ loc[p].reqs # <<>>
        /\ fs = loc[p].fs0
        /\ \E d \in DOMAIN fs : fs[d] = Range(Files)

====
